---- MODULE Spec2Model ----
(***************************************************************************)
(* Model of image_to_pdf_downloader.py: the extraction and ordering of     *)
(* image URLs (static strategy chain and paginated crawl), the concurrent  *)
(* download into a slot array, the life cycle of a chapter job, alone and  *)
(* in the loop of the bulk mode, and the pure methods called on their own. *)
(*                                                                         *)
(* URLs are sequences of tokens.  A token is a short string that the       *)
(* program's regular expressions never split: "/" "?" "&" "_" are single   *)
(* characters, a digit token is one decimal digit, ".jpg" is a dot         *)
(* followed by letters, "styles" "public" "v" "img" are runs of letters,   *)
(* "itok=" and "w=" are a parameter name with its "=".  The empty          *)
(* sequence is the empty string and also stands for Python's None where    *)
(* the code tests a URL for truth.  Page URLs of a crawl are numbers, 0    *)
(* standing for None.                                                      *)
(***************************************************************************)
EXTENDS Integers, Sequences, FiniteSets, TLC

\* ------------------------------------------------------------ bounds
\* page URLs of an arbitrary paginated site are 1..NumPages
NumPages == 3
\* <img> elements of a static page
MaxImgs == 2
\* image URLs handed to download_images
MaxUrls == 3
\* options of the related-chapter selector
MaxRelated == 2
\* invalid answers to the "Download them all?" prompt
MaxPrompts == 1

\* ------------------------------------------------------------ helpers
Min(S) == CHOOSE x \in S : \A y \in S : x <= y
Max(S) == CHOOSE x \in S : \A y \in S : x >= y
Range(s) == {s[i] : i \in 1..Len(s)}
NoDuplicates(s) == \A i, j \in 1..Len(s) : i # j => s[i] # s[j]
\* first index >= from at which tok occurs in s, 0 when there is none
IndexOf(s, tok, from) ==
    LET S == {i \in from..Len(s) : s[i] = tok}
    IN IF S = {} THEN 0 ELSE Min(S)
\* last index at which tok occurs in s, 0 when there is none
LastIndexOf(s, tok) ==
    LET S == {i \in 1..Len(s) : s[i] = tok}
    IN IF S = {} THEN 0 ELSE Max(S)

\* ------------------------------------------------------------ tokens
DigitTok == {"0", "1", "2", "3", "4", "5", "6", "7", "8", "9"}
DigitVal(t) ==
    CASE t = "0" -> 0 [] t = "1" -> 1 [] t = "2" -> 2 [] t = "3" -> 3
      [] t = "4" -> 4 [] t = "5" -> 5 [] t = "6" -> 6 [] t = "7" -> 7
      [] t = "8" -> 8 [] t = "9" -> 9
IsDigit(t) == t \in DigitTok
\* tokens whose first character matches [\W_]
StartsNonWord ==
    {"/", "?", "&", "_", "-", ".jpg", ".jpeg", ".png", ".gif", ".webp", ".bmp",
     ".JPG", ".PNG", ".txt"}
\* tokens whose last character matches [\W_]
EndsNonWord == {"/", "?", "&", "_", "-", "itok=", "w="}
\* tokens whose first character is a literal dot
StartsWithDot ==
    {".jpg", ".jpeg", ".png", ".gif", ".webp", ".bmp", ".JPG", ".PNG", ".txt"}
\* str.lower() on one token
Lower(t) == CASE t = ".JPG" -> ".jpg" [] t = ".PNG" -> ".png" [] OTHER -> t

\* ------------------------------------------------------------ is_image_url
image_extensions == {".jpg", ".jpeg", ".png", ".gif", ".webp", ".bmp"}
is_image_url(url) == Len(url) > 0 /\ Lower(url[Len(url)]) \in image_extensions

\* ------------------------------------------------------------ clean_image_url
\* index of the last token of a match of /styles/[^/]+/public/ that starts
\* at token i, 0 when there is no match at i
StyleMatchEnd(url, i) ==
    IF i + 6 <= Len(url) /\ url[i] = "/" /\ url[i+1] = "styles"
       /\ url[i+2] = "/" /\ url[i+3] # "/"
    THEN LET j == IndexOf(url, "/", i + 3)
         IN IF j # 0 /\ j + 2 <= Len(url) /\ url[j+1] = "public" /\ url[j+2] = "/"
            THEN j + 2 ELSE 0
    ELSE 0
\* re.sub(r'/styles/[^/]+/public/', '/', url): leftmost matches, left to
\* right, never overlapping, the replacement text is not scanned again
RECURSIVE StripStyles(_, _)
StripStyles(url, i) ==
    IF i > Len(url) THEN <<>>
    ELSE LET e == StyleMatchEnd(url, i)
         IN IF e # 0 THEN <<"/">> \o StripStyles(url, e + 1)
                     ELSE <<url[i]>> \o StripStyles(url, i + 1)
\* start of the leftmost match of [?&]itok=([^&]+), 0 when there is none
ItokStart(url) ==
    LET S == {i \in 1..(Len(url) - 2) :
                url[i] \in {"?", "&"} /\ url[i+1] = "itok=" /\ url[i+2] # "&"}
    IN IF S = {} THEN 0 ELSE Min(S)
\* group(1) of that match: the longest run without "&" after itok=
ItokValue(url, k) ==
    LET a == IndexOf(url, "&", k + 2)
    IN SubSeq(url, k + 2, IF a = 0 THEN Len(url) ELSE a - 1)
clean_image_url(url) ==
    LET u == StripStyles(url, 1)
        q == IndexOf(u, "?", 1)
    IN IF q = 0 THEN u
       ELSE LET base_url == SubSeq(u, 1, q - 1)
                k == ItokStart(u)
            IN IF k # 0 THEN base_url \o <<"?", "itok=">> \o ItokValue(u, k)
                        ELSE base_url

\* ------------------------------------------------------------ extract_number_from_filename
\* float('inf'), the key of a filename without a digit
Inf == -1
\* url.split('/')[-1].split('?')[0]
FileName(url) ==
    LET tail == SubSeq(url, LastIndexOf(url, "/") + 1, Len(url))
        q == IndexOf(tail, "?", 1)
    IN IF q = 0 THEN tail ELSE SubSeq(tail, 1, q - 1)
\* last index of the digit run that starts at i
RunEnd(f, i) == Max({j \in i..Len(f) : \A k \in i..j : IsDigit(f[k])})
\* int() of the digits f[i..j]
RECURSIVE IntOf(_, _, _)
IntOf(f, i, j) == IF j < i THEN 0 ELSE IntOf(f, i, j - 1) * 10 + DigitVal(f[j])
\* ^(\d+)[\W_]
Pattern1(f) ==
    IF Len(f) > 0 /\ IsDigit(f[1])
    THEN LET e == RunEnd(f, 1)
         IN IF e < Len(f) /\ f[e+1] \in StartsNonWord THEN IntOf(f, 1, e) ELSE Inf
    ELSE Inf
\* [\W_](\d+)\.  leftmost match
Pattern2(f) ==
    LET S == {j \in 1..(Len(f) - 2) :
                /\ f[j] \in EndsNonWord
                /\ IsDigit(f[j+1])
                /\ RunEnd(f, j + 1) < Len(f)
                /\ f[RunEnd(f, j + 1) + 1] \in StartsWithDot}
    IN IF S = {} THEN Inf ELSE IntOf(f, Min(S) + 1, RunEnd(f, Min(S) + 1))
\* (\d+)  leftmost match
Pattern3(f) ==
    LET S == {i \in 1..Len(f) : IsDigit(f[i])}
    IN IF S = {} THEN Inf ELSE IntOf(f, Min(S), RunEnd(f, Min(S)))
extract_number_from_filename(url) ==
    LET filename == FileName(url)
    IN IF Pattern1(filename) # Inf THEN Pattern1(filename)
       ELSE IF Pattern2(filename) # Inf THEN Pattern2(filename)
       ELSE Pattern3(filename)

\* ------------------------------------------------------------ smart_sort_images
\* a < b on the keys, Inf being greater than every number
KeyLessPlain(a, b) == a < b
KeyLess(a, b) == a # Inf /\ (b = Inf \/ a < b)
\* list.sort(key=...) is stable: x goes before the first entry with a
\* strictly greater key
RECURSIVE InsertByKey(_, _)
InsertByKey(sorted, x) ==
    IF sorted = <<>> THEN <<x>>
    ELSE IF KeyLess(extract_number_from_filename(x),
                    extract_number_from_filename(Head(sorted)))
         THEN <<x>> \o sorted
         ELSE <<Head(sorted)>> \o InsertByKey(Tail(sorted), x)
RECURSIVE SortFrom(_, _, _)
SortFrom(urls, i, sorted) ==
    IF i > Len(urls) THEN sorted
    ELSE SortFrom(urls, i + 1, InsertByKey(sorted, urls[i]))
smart_sort_images(image_urls) == SortFrom(image_urls, 1, <<>>)

\* ------------------------------------------------------------ extract_images, static chain
\* the seen/unique_urls loop
RECURSIVE Dedup(_, _, _)
Dedup(urls, i, unique_urls) ==
    IF i > Len(urls) THEN unique_urls
    ELSE Dedup(urls, i + 1,
               IF urls[i] \in Range(unique_urls) THEN unique_urls
               ELSE Append(unique_urls, urls[i]))
\* An <img> element is [in_noscript, src, data_src]; an absent attribute is
\* <<>>.  The values of attribute attr that pass is_image_url, in document
\* order, of all elements or of those inside <noscript> only.
Candidates(doc, noscript_only, attr) ==
    LET sel == SelectSeq(doc, LAMBDA e : /\ (noscript_only => e.in_noscript)
                                         /\ e[attr] # <<>>
                                         /\ is_image_url(e[attr]))
    IN [i \in 1..Len(sel) |-> sel[i][attr]]
\* the three strategies in order: a later one runs only `if not image_urls`
StrategyChainMixed(s1, s2, s3) == s1 \o s2 \o s3
StrategyChain(s1, s2, s3) == IF s1 # <<>> THEN s1 ELSE IF s2 # <<>> THEN s2 ELSE s3
\* lines 179-224 of extract_images: strategy chain, clean, dedup, smart sort
ExtractStatic(d) ==
    LET found == StrategyChain(Candidates(d.imgs, TRUE, "src"),
                               Candidates(d.imgs, FALSE, "data_src"),
                               Candidates(d.imgs, FALSE, "src"))
        cleaned == [i \in 1..Len(found) |-> clean_image_url(found[i])]
    IN smart_sort_images(Dedup(cleaned, 1, <<>>))
\* an indicator string occurs in the markup, or a <div> has an id matching
\* "control"
is_paginated_gallery(d) == d.indicator \/ d.control_div

\* ------------------------------------------------------------ extract_main_image
\* A fetched page, as extract_main_image reads it: main_src is the src of
\* the first <img src> inside the first container whose id matches
\* content|main|comic|image, class_src the src of the first <img src> whose
\* class matches, imgs all <img src> elements with their width and height
\* (-1: absent or not all digits); <<>> is "no such element".
ChromeTok == {"logo", "icon", "avatar", "button", "banner", "ad", "thumb"}
IsChrome(src) == \E i \in 1..Len(src) : Lower(src[i]) \in ChromeTok
SizeScore(img) ==
    (IF img.width >= 0 THEN img.width ELSE 0) + (IF img.height >= 0 THEN img.height ELSE 0)
\* candidate_images.sort(key=score, reverse=True)[0]: the sort is stable, so
\* this is the first candidate with the greatest score
Largest(cands) ==
    cands[Min({i \in 1..Len(cands) :
                 \A j \in 1..Len(cands) : SizeScore(cands[j]) <= SizeScore(cands[i])})]
extract_main_image(page) ==
    IF page.main_src # <<>> /\ is_image_url(page.main_src)
    THEN clean_image_url(page.main_src)
    ELSE IF page.class_src # <<>> /\ is_image_url(page.class_src)
    THEN clean_image_url(page.class_src)
    ELSE LET cands == SelectSeq(page.imgs, LAMBDA e : /\ e.src # <<>>
                                                      /\ is_image_url(e.src)
                                                      /\ ~IsChrome(e.src))
         IN IF cands # <<>> THEN clean_image_url(Largest(cands).src) ELSE <<>>

\* ------------------------------------------------------------ find_next_page_url
\* What the three strategies of find_next_page_url find on a page, each
\* already resolved by normalize_url to a page URL (0: nothing found):
\* by_text the first <a> whose text matches a "next" keyword, by_class the
\* first link found through a next|pagGaleria class, by_number the
\* incremented URL when the page mentions it.
find_next_page_url(links) ==
    IF links.by_text # 0 THEN links.by_text
    ELSE IF links.by_class # 0 THEN links.by_class
    ELSE links.by_number

\* ------------------------------------------------------------ state
VARIABLES
    \* extract_images and extract_paginated_images
    pc,             \* "extract", "crawl" (at the while test), "done" (returned)
    site,           \* what the server holds: "static", "any" or "chain"
    doc,            \* the initial page, as the static chain reads it
    image_urls,     \* the list extract_images returns
    current_url, visited_urls, all_image_urls, page_number, next_url,
    crawl_error,    \* the except branch taken: "none", "fetch" or "link"
    processed,      \* page URLs for which the loop body ran, in order
    page_images,    \* extract_main_image's result for each parsed page
    requests,       \* page URLs passed to session.get, in order
    \* download_images
    dl_pc,          \* "idle", "running" (inside the executor block), "returned"
    downloaded_files, \* the slot array, after the return the compacted list
    task,           \* position of download_single_image(idx, url), by idx
    lock,           \* idx of the worker that holds the Lock, 0 when free
    temp_files,     \* files written into self.temp_dir
    get_calls,      \* how often session.get was called for each idx
    log,            \* the lines the workers printed: <<idx, downloaded>>
    \* run and download_chapter
    jpc,            \* position of run()
    main_url,       \* self.url of the main downloader
    job,            \* the downloader at work: 0 is the main one, i the i-th related
    temp_dirs,      \* jobs whose temporary directory exists
    related_chapters, \* what detect_related_chapters returned
    prompts,        \* input() calls of the "Download them all?" loop
    chapter_urls,   \* image_urls of the latest download_chapter
    chapter_files,  \* downloaded_files of the latest download_chapter
    pil_images,     \* pil_images of the latest create_pdf
    downloads,      \* jobs for which download_images was called
    pdfs,           \* jobs whose PDF was written
    pdf_pages,      \* the pages of the PDF written last
    results,        \* how download_chapter or fetch_page ended, by job
    ended,          \* jobs that are over
    unreadable,     \* files of pil_images whose pixel data cannot be decoded
    \* download_bulk_mode
    bulk_len,       \* len(urls), 0 outside bulk mode
    bulk_idx,       \* idx of the for loop
    auto_download, successful, failed,
    \* a call of a pure method
    fn_pc,          \* "idle", "call" or "returned"
    fn_arg,         \* the argument
    fn_res          \* the values returned, one for each application

exVars == <<pc, site, doc, image_urls, current_url, visited_urls, all_image_urls,
            page_number, next_url, crawl_error, processed, page_images, requests>>
dlVars == <<dl_pc, downloaded_files, task, lock, temp_files, get_calls, log>>
bulkVars == <<bulk_len, bulk_idx, auto_download, successful, failed>>
jobVars == <<jpc, main_url, job, temp_dirs, related_chapters, prompts, chapter_urls,
             chapter_files, pil_images, downloads, pdfs, pdf_pages, results, ended,
             unreadable, bulkVars>>
fnVars == <<fn_pc, fn_arg, fn_res>>
vars == <<exVars, dlVars, jobVars, fnVars>>

\* ------------------------------------------------------------ inputs
SeqsUpTo(S, n) == UNION {[1..k -> S] : k \in 0..n}
U_styled == <<"/", "styles", "/", "v", "/", "public", "/", "2", ".jpg">>
U_plain == <<"/", "2", ".jpg">>
U_upper == <<"/", "1", ".PNG">>
U_text == <<"/", "v", ".txt">>
U_logo == <<"/", "logo", ".png">>
RawUrls == {U_styled, U_plain, U_upper, U_text}
ImgElements == [in_noscript : BOOLEAN, src : RawUrls \cup {<<>>}, data_src : RawUrls \cup {<<>>}]
StaticDocs == [indicator : {FALSE}, control_div : {FALSE}, imgs : SeqsUpTo(ImgElements, MaxImgs)]
\* extract_images returns before it reads the <img> elements of a page that
\* is_paginated_gallery accepts, so these pages are enumerated with one
\* value of imgs
PaginatedDocs ==
    {d \in [indicator : BOOLEAN, control_div : BOOLEAN, imgs : {<<>>}] :
        d.indicator \/ d.control_div}
NoImg == [src |-> <<>>, width |-> -1, height |-> -1]
\* pages of an arbitrary site, one for each way extract_main_image ends
PageKinds ==
    { \* the content container holds the image
      [main_src |-> U_upper, class_src |-> <<>>, imgs |-> <<[NoImg EXCEPT !.src = U_upper]>>],
      \* the container's <img> is no image URL, an <img> with a main class is
      [main_src |-> U_text, class_src |-> U_styled,
       imgs |-> <<[NoImg EXCEPT !.src = U_text], [NoImg EXCEPT !.src = U_styled]>>],
      \* neither: the largest <img> that is no UI chrome
      [main_src |-> <<>>, class_src |-> <<>>,
       imgs |-> <<[src |-> U_logo, width |-> 9, height |-> 9],
                  [src |-> U_upper, width |-> 1, height |-> -1],
                  [src |-> U_plain, width |-> 1, height |-> 1]>>],
      \* no main image at all
      [main_src |-> <<>>, class_src |-> <<>>, imgs |-> <<[NoImg EXCEPT !.src = U_logo]>>] }
AnyLinks == [by_text : 0..NumPages, by_class : 0..NumPages, by_number : 0..NumPages]
\* decimal digits of n
DigitStr == <<"0", "1", "2", "3", "4", "5", "6", "7", "8", "9">>
RECURSIVE Digits(_)
Digits(n) == IF n < 10 THEN <<DigitStr[n + 1]>>
             ELSE Digits(n \div 10) \o <<DigitStr[(n % 10) + 1]>>
\* The "chain" site: page u shows image /<u>.jpg in its content container
\* and always has a next link, to page u + 1.
ChainPage(u) ==
    LET src == <<"/">> \o Digits(u) \o <<".jpg">>
    IN [main_src |-> src, class_src |-> <<>>, imgs |-> <<[NoImg EXCEPT !.src = src]>>]
ChainLinks(u) == [by_text |-> 0, by_class |-> 0, by_number |-> u + 1]
\* what a fetch of page u can return
PageContents(u) == IF site = "chain" THEN {ChainPage(u)} ELSE PageKinds
PageLinks(u) == IF site = "chain" THEN {ChainLinks(u)} ELSE AnyLinks

\* ------------------------------------------------------------ extract_images
\* self.url
self_url == 1
max_pages == 200

\* download_images is not running
DlIdle ==
    /\ dl_pc = "idle" /\ downloaded_files = <<>> /\ task = <<>> /\ lock = 0
    /\ temp_files = {} /\ get_calls = <<>> /\ log = <<>>
\* the program is not in download_bulk_mode
BulkIdle ==
    /\ bulk_len = 0 /\ bulk_idx = 0 /\ auto_download = FALSE
    /\ successful = 0 /\ failed = 0
\* no job is running
JobIdle ==
    /\ jpc = "idle" /\ main_url = <<>> /\ job = 0 /\ temp_dirs = {}
    /\ related_chapters = <<>> /\ prompts = 0
    /\ chapter_urls = <<>> /\ chapter_files = <<>> /\ pil_images = <<>>
    /\ downloads = {} /\ pdfs = {} /\ pdf_pages = <<>> /\ results = {} /\ ended = {}
    /\ unreadable = {} /\ BulkIdle
\* no pure method is being called
FnIdle == fn_pc = "idle" /\ fn_arg = <<>> /\ fn_res = <<>>

ExInit ==
    /\ pc = "extract"
    /\ \/ site = "static" /\ doc \in StaticDocs
       \/ site \in {"any", "chain"} /\ doc \in PaginatedDocs
    /\ image_urls = <<>>
    /\ current_url = 0 /\ visited_urls = {} /\ all_image_urls = <<>>
    /\ page_number = 0 /\ next_url = 0 /\ crawl_error = "none"
    /\ processed = <<>> /\ page_images = <<>> /\ requests = <<>>

\* extract_images on a page that is no paginated gallery
ExtractStaticImages ==
    /\ pc = "extract"
    /\ ~is_paginated_gallery(doc)
    /\ image_urls' = ExtractStatic(doc)
    /\ pc' = "done"
    /\ UNCHANGED <<site, doc, current_url, visited_urls, all_image_urls, page_number,
                   next_url, crawl_error, processed, page_images, requests>>
    /\ UNCHANGED <<dlVars, jobVars, fnVars>>

\* extract_images delegates to extract_paginated_images, which sets up its
\* locals
CrawlBegin ==
    /\ pc = "extract"
    /\ is_paginated_gallery(doc)
    /\ all_image_urls' = <<>>
    /\ visited_urls' = {}
    /\ current_url' = self_url
    /\ page_number' = 1
    /\ pc' = "crawl"
    /\ UNCHANGED <<site, doc, image_urls, next_url, crawl_error, processed,
                   page_images, requests>>
    /\ UNCHANGED <<dlVars, jobVars, fnVars>>

\* `in visited_urls`, of the while test and of the end-of-gallery test
AlreadyVisitedNever(u, visited) == FALSE
AlreadyVisited(u, visited) == u \in visited
WithinLimitOffByOne(n) == n < max_pages
WithinLimit(n) == n <= max_pages
\* the while test
LoopCond == WithinLimit(page_number) /\ current_url # 0
            /\ ~AlreadyVisited(current_url, visited_urls)
\* `if not next_url or next_url in visited_urls`, after visited_urls.add
EndOfGallery(n, visited) == n = 0 \/ AlreadyVisited(n, visited)
\* `if image_url: all_image_urls.append(image_url)`
CollectUnchecked(list, image_url) == Append(list, image_url)
CollectInFront(list, image_url) ==
    IF image_url # <<>> THEN <<image_url>> \o list ELSE list
Collect(list, image_url) == IF image_url # <<>> THEN Append(list, image_url) ELSE list

\* the loop body up to the fetch: the URL is marked visited and, unless it
\* is the initial page, requested
Visit ==
    /\ pc = "crawl"
    /\ LoopCond
    /\ visited_urls' = visited_urls \cup {current_url}
    /\ processed' = Append(processed, current_url)
    /\ requests' = IF current_url = self_url THEN requests
                   ELSE Append(requests, current_url)
    /\ UNCHANGED <<dlVars, jobVars, fnVars>>
\* the page was fetched and parsed: its main image is collected
Parsed(page) ==
    /\ Visit
    /\ page_images' = Append(page_images, extract_main_image(page))
    /\ all_image_urls' = Collect(all_image_urls, extract_main_image(page))
\* break, or the while test fails: the function returns all_image_urls
Return(list) == pc' = "done" /\ image_urls' = list

\* session.get, raise_for_status or the parse raises: except, break
PageFetchError ==
    /\ Visit
    /\ current_url # self_url
    /\ crawl_error' = "fetch"
    /\ Return(all_image_urls)
    /\ UNCHANGED <<site, doc, current_url, all_image_urls, page_number, next_url,
                   page_images>>
\* find_next_page_url raises (urljoin on a malformed href): except, break
PageLinkError ==
    /\ \E page \in PageContents(current_url) : Parsed(page)
    /\ crawl_error' = "link"
    /\ Return(all_image_urls')
    /\ UNCHANGED <<site, doc, current_url, page_number, next_url>>
\* no next link, or one to a visited URL: break
PageEnd ==
    \E page \in PageContents(current_url), links \in PageLinks(current_url) :
        /\ Parsed(page)
        /\ EndOfGallery(find_next_page_url(links), visited_urls')
        /\ next_url' = find_next_page_url(links)
        /\ Return(all_image_urls')
        /\ UNCHANGED <<site, doc, current_url, page_number, crawl_error>>
\* a next link to a new URL: the loop goes on with it
PageAdvance ==
    \E page \in PageContents(current_url), links \in PageLinks(current_url) :
        /\ Parsed(page)
        /\ ~EndOfGallery(find_next_page_url(links), visited_urls')
        /\ next_url' = find_next_page_url(links)
        /\ current_url' = next_url'
        /\ page_number' = page_number + 1
        /\ UNCHANGED <<site, doc, image_urls, pc, crawl_error>>
\* the while test fails
LoopExit ==
    /\ pc = "crawl"
    /\ ~LoopCond
    /\ Return(all_image_urls)
    /\ UNCHANGED <<site, doc, current_url, visited_urls, all_image_urls, page_number,
                   next_url, crawl_error, processed, page_images, requests>>
    /\ UNCHANGED <<dlVars, jobVars, fnVars>>

CrawlNext == CrawlBegin \/ PageFetchError \/ PageLinkError \/ PageEnd \/ PageAdvance
             \/ LoopExit

Init == ExInit /\ DlIdle /\ JobIdle /\ FnIdle
Next == ExtractStaticImages \/ CrawlNext
\* extract_images on any page
Spec == Init /\ [][Next]_vars

\* extract_images on paginated galleries only; the code is sequential and
\* every fetch has a timeout, so a step that can be taken is taken
CrawlInit == Init /\ is_paginated_gallery(doc)
CrawlFair == CrawlInit /\ [][CrawlNext]_vars /\ WF_vars(CrawlNext)

\* ------------------------------------------------------------ claims on the crawl
\* the main images that were found on the parsed pages, in crawl order
FoundImages == SelectSeq(page_images, LAMBDA u : u # <<>>)

\* C3: on every page graph, cycles and self-links included, the crawl
\* terminates, runs the loop body for no page URL twice, never returns to the
\* while test with a visited URL, and ends at the page whose next link leads
\* to a visited URL.
CrawlTerminatesWithoutRevisit ==
    /\ <>(pc = "done")
    /\ [](/\ NoDuplicates(processed)
          /\ NoDuplicates(requests)
          /\ (pc = "crawl" => current_url \notin visited_urls)
          /\ (crawl_error = "none" /\ next_url \in visited_urls
                => pc = "done" /\ processed[Len(processed)] = current_url))
\* the cycle A -> B -> A was followed and the crawl ended at B
CycleRevisitReached ==
    /\ pc = "done" /\ crawl_error = "none"
    /\ Len(processed) = 2 /\ next_url = self_url /\ current_url # self_url

\* C4: the loop body never runs for more than 200 pages, and on a chain in
\* which every page links to a new page it runs for exactly 200: the initial
\* page and 199 fetched ones.
CrawlCeiling ==
    /\ Len(processed) <= max_pages
    /\ (pc = "done" /\ site = "chain" /\ crawl_error = "none"
          => Len(processed) = max_pages /\ Len(requests) = max_pages - 1)
CeilingReached ==
    pc = "done" /\ site = "chain" /\ crawl_error = "none" /\ page_number = max_pages + 1

\* C5 as stated: at the end of a crawl there are as many collected image
\* URLs as pages that were parsed without error.
OneImagePerParsedPage ==
    pc = "done" /\ site # "static" => Len(image_urls) = Len(page_images)
\* C5 amended: every parsed page contributes its main image when it has one
\* and nothing when it has none, so the number of collected URLs is the
\* number of parsed pages on which a main image was found.
AtMostOneImagePerParsedPage ==
    /\ Len(all_image_urls)
         = Cardinality({i \in 1..Len(page_images) : page_images[i] # <<>>})
    /\ Len(all_image_urls) <= Len(page_images)
    /\ (pc = "done" /\ site # "static" => image_urls = all_image_urls)
PageWithoutImageCrawled ==
    /\ pc = "done" /\ site = "any" /\ Len(image_urls) >= 1
    /\ \E i \in 1..Len(page_images) : page_images[i] = <<>>

\* C6: the list extract_images returns never holds the same URL twice, be it
\* from the static chain or from the paginated crawl.
ExtractedUrlsUnique == pc = "done" => NoDuplicates(image_urls)

\* C7: when the fetch or parse of page k fails the crawl has returned, its
\* result is exactly the main images found on pages 1..k-1 in crawl order,
\* and from then on no page is visited or requested.
CrawlStopsAtFetchError ==
    /\ [](crawl_error = "fetch"
            => /\ pc = "done"
               /\ Len(page_images) = Len(processed) - 1
               /\ image_urls = FoundImages)
    /\ [][crawl_error = "fetch" => UNCHANGED <<processed, requests, visited_urls, image_urls>>]_vars
FetchErrorAfterTwoImages ==
    crawl_error = "fetch" /\ Len(processed) = 3 /\ Len(image_urls) = 2
    /\ image_urls[1] # image_urls[2]

\* ------------------------------------------------------------ claims on the static chain
\* the cleaned URLs a strategy yields
CleanedSet(found) == {clean_image_url(u) : u \in Range(found)}
StrategyYields(d) ==
    <<Candidates(d.imgs, TRUE, "src"), Candidates(d.imgs, FALSE, "data_src"),
      Candidates(d.imgs, FALSE, "src")>>
\* C10: on a page that is no paginated gallery the result holds the URLs of
\* exactly one strategy: the first of noscript src, data-src, src that yields
\* a URL passing is_image_url (the last when none does).
FirstStrategyWins ==
    pc = "done" /\ ~is_paginated_gallery(doc) =>
        \E k \in 1..3 :
            /\ \A j \in 1..(k - 1) : StrategyYields(doc)[j] = <<>>
            /\ k < 3 => StrategyYields(doc)[k] # <<>>
            /\ Range(image_urls) = CleanedSet(StrategyYields(doc)[k])
\* the noscript strategy won and a data-src URL was left out
LaterStrategyLeftOut ==
    /\ pc = "done" /\ ~is_paginated_gallery(doc)
    /\ StrategyYields(doc)[1] # <<>>
    /\ \E u \in CleanedSet(StrategyYields(doc)[2]) : u \notin Range(image_urls)

\* ------------------------------------------------------------ download_images
\* ThreadPoolExecutor(max_workers=8)
max_workers == 8
U_noext == <<"/", "v">>
DlUrls == {U_plain, U_noext}
\* None in the slot array
NoFile == [idx |-> 0, ext |-> <<>>]
\* os.path.splitext(img_url)[1]: from the last dot of the last path segment,
\* unless that dot begins the segment
SplitExt(url) ==
    LET k == Max({0} \cup {i \in 1..Len(url) : url[i] \in StartsWithDot})
    IN IF k > LastIndexOf(url, "/") + 1 THEN SubSeq(url, k, Len(url)) ELSE <<>>
\* os.path.join(self.temp_dir, f"{idx:03d}{file_ext}")
TempFile(idx, url) ==
    [idx |-> idx, ext |-> IF SplitExt(url) # <<>> THEN SplitExt(url) ELSE <<".jpg">>]
\* downloaded_files[idx - 1] = temp_file (sequences here start at 1)
StoreInCompletionOrder(files, idx, file) ==
    [files EXCEPT ![Min({i \in 1..Len(files) : files[i] = NoFile})] = file]
StoreSlot(files, idx, file) == [files EXCEPT ![idx] = file]
\* [f for f in downloaded_files if f is not None]
CompactUnfiltered(files) == files
Compact(files) == SelectSeq(files, LAMBDA f : f # NoFile)

Tasks == 1..Len(image_urls)
Finished(i) == task[i] \in {"true", "false"}
Running(i) == task[i] # "queued" /\ ~Finished(i)
\* the `with ThreadPoolExecutor` block is left when every future is done
SomeFutureDone == \E i \in Tasks : Finished(i)
AllFuturesDone == \A i \in Tasks : Finished(i)
\* where download_single_image goes on when session.get or raise_for_status
\* raises: in the except branch
OnGetErrorRetry == "get"
OnGetError == "wait_fail"
\* worker i is inside self.session.get, on the session of the downloader
UsesSession(i) == task[i] = "get"
\* worker i is inside one of the two `with lock:` blocks
InLockedBlock(i) == task[i] \in {"in_ok", "stored", "in_fail"}

\* extract_images has returned a list and download_images is about to be
\* called with it
DlInit ==
    /\ pc = "done" /\ site = "static"
    /\ doc = [indicator |-> FALSE, control_div |-> FALSE, imgs |-> <<>>]
    /\ image_urls \in SeqsUpTo(DlUrls, MaxUrls)
    /\ current_url = 0 /\ visited_urls = {} /\ all_image_urls = <<>>
    /\ page_number = 0 /\ next_url = 0 /\ crawl_error = "none"
    /\ processed = <<>> /\ page_images = <<>> /\ requests = <<>>
    /\ DlIdle /\ JobIdle /\ FnIdle

\* the slot array and the lock are made and every item is submitted
DlCall ==
    /\ dl_pc = "idle"
    /\ dl_pc' = "running"
    /\ downloaded_files' = [i \in Tasks |-> NoFile]
    /\ task' = [i \in Tasks |-> "queued"]
    /\ get_calls' = [i \in Tasks |-> 0]
    /\ lock' = 0
    /\ UNCHANGED <<temp_files, log, exVars, jobVars, fnVars>>
\* a pool thread takes the next item of the work queue
Start(i) ==
    /\ dl_pc = "running" /\ task[i] = "queued"
    /\ \A j \in 1..(i - 1) : task[j] # "queued"
    /\ Cardinality({j \in Tasks : Running(j)}) < max_workers
    /\ task' = [task EXCEPT ![i] = "get"]
    /\ UNCHANGED <<dl_pc, downloaded_files, lock, temp_files, get_calls, log,
                   exVars, jobVars, fnVars>>
\* session.get and raise_for_status succeed
GetOk(i) ==
    /\ dl_pc = "running" /\ task[i] = "get"
    /\ get_calls' = [get_calls EXCEPT ![i] = @ + 1]
    /\ task' = [task EXCEPT ![i] = "save"]
    /\ UNCHANGED <<dl_pc, downloaded_files, lock, temp_files, log, exVars, jobVars, fnVars>>
\* timeout or HTTP error: except
GetFail(i) ==
    /\ dl_pc = "running" /\ task[i] = "get"
    /\ get_calls' = [get_calls EXCEPT ![i] = @ + 1]
    /\ task' = [task EXCEPT ![i] = OnGetError]
    /\ UNCHANGED <<dl_pc, downloaded_files, lock, temp_files, log, exVars, jobVars, fnVars>>
\* the response is written to the temporary file
SaveOk(i) ==
    /\ dl_pc = "running" /\ task[i] = "save"
    /\ temp_files' = temp_files \cup {TempFile(i, image_urls[i])}
    /\ task' = [task EXCEPT ![i] = "wait_ok"]
    /\ UNCHANGED <<dl_pc, downloaded_files, lock, get_calls, log, exVars, jobVars, fnVars>>
\* open or write raises: except
SaveFail(i) ==
    /\ dl_pc = "running" /\ task[i] = "save"
    /\ task' = [task EXCEPT ![i] = "wait_fail"]
    /\ UNCHANGED <<dl_pc, downloaded_files, lock, temp_files, get_calls, log,
                   exVars, jobVars, fnVars>>
\* `with lock:` of either branch
Acquire(i) ==
    /\ dl_pc = "running" /\ task[i] \in {"wait_ok", "wait_fail"}
    /\ lock = 0
    /\ lock' = i
    /\ task' = [task EXCEPT ![i] = IF task[i] = "wait_ok" THEN "in_ok" ELSE "in_fail"]
    /\ UNCHANGED <<dl_pc, downloaded_files, temp_files, get_calls, log, exVars, jobVars, fnVars>>
\* the slot is written
Store(i) ==
    /\ dl_pc = "running" /\ task[i] = "in_ok"
    /\ downloaded_files' = StoreSlot(downloaded_files, i, TempFile(i, image_urls[i]))
    /\ task' = [task EXCEPT ![i] = "stored"]
    /\ UNCHANGED <<dl_pc, lock, temp_files, get_calls, log, exVars, jobVars, fnVars>>
\* the line is printed, the lock released, the worker returns True or False
LogAndRelease(i) ==
    /\ dl_pc = "running" /\ task[i] \in {"stored", "in_fail"}
    /\ log' = Append(log, <<i, task[i] = "stored">>)
    /\ lock' = 0
    /\ task' = [task EXCEPT ![i] = IF task[i] = "stored" THEN "true" ELSE "false"]
    /\ UNCHANGED <<dl_pc, downloaded_files, temp_files, get_calls, exVars, jobVars, fnVars>>
\* every future is done: the executor block is left, the empty slots are
\* dropped and the list is returned
DlReturn ==
    /\ dl_pc = "running"
    /\ AllFuturesDone
    /\ downloaded_files' = Compact(downloaded_files)
    /\ dl_pc' = "returned"
    /\ UNCHANGED <<task, lock, temp_files, get_calls, log, exVars, jobVars, fnVars>>

\* the steps inside download_images, once it was called
DlWork ==
    \/ \E i \in Tasks : Start(i)
    \/ \E i \in Tasks : GetOk(i)
    \/ \E i \in Tasks : GetFail(i)
    \/ \E i \in Tasks : SaveOk(i)
    \/ \E i \in Tasks : SaveFail(i)
    \/ \E i \in Tasks : Acquire(i)
    \/ \E i \in Tasks : Store(i)
    \/ \E i \in Tasks : LogAndRelease(i)
    \/ DlReturn
DlNext == DlCall \/ DlWork
DownloadSpec == DlInit /\ [][DlNext]_vars

\* ------------------------------------------------------------ claims on the download
Succeeded == {i \in Tasks : task[i] = "true"}

\* C1: whatever the input list, the failing items and the order in which the
\* workers finish, the returned list holds the files of the downloaded items
\* in the order of their URLs in the input list.
DownloadOrderPreserved ==
    dl_pc = "returned" =>
        /\ \A p, q \in 1..Len(downloaded_files) :
              p < q => downloaded_files[p].idx < downloaded_files[q].idx
        /\ \A p \in 1..Len(downloaded_files) :
              /\ downloaded_files[p].idx \in Succeeded
              /\ downloaded_files[p]
                   = TempFile(downloaded_files[p].idx, image_urls[downloaded_files[p].idx])
\* a later item finished before an earlier one, and one item failed
OutOfOrderCompletion ==
    /\ dl_pc = "returned" /\ Len(downloaded_files) >= 2
    /\ \E a, b \in 1..Len(log) :
          a < b /\ log[a][1] > log[b][1] /\ log[a][2] /\ log[b][2]
    /\ \E i \in Tasks : task[i] = "false"

\* C8: a failed download leaves its slot empty and no worker changes another
\* item's slot; every item is requested, download_images returns, and the
\* returned list holds exactly the files of the items that succeeded.
DownloadFailureIsolated ==
    /\ dl_pc = "running" =>
          \A i \in Tasks :
              /\ task[i] \in {"wait_fail", "in_fail", "false"} => downloaded_files[i] = NoFile
              /\ downloaded_files[i] \in {NoFile, TempFile(i, image_urls[i])}
    /\ dl_pc = "returned" =>
          /\ \A i \in Tasks : get_calls[i] = 1
          /\ Range(downloaded_files) = {TempFile(i, image_urls[i]) : i \in Succeeded}
          /\ Len(downloaded_files) = Cardinality(Succeeded)
\* the first item failed and a later one was downloaded
FailureBeforeSuccess ==
    /\ dl_pc = "returned" /\ Len(image_urls) >= 2
    /\ task[1] = "false" /\ \E i \in Tasks : i > 1 /\ task[i] = "true"

\* C15: a worker touches state it shares with other workers only while it
\* holds the lock: the slot array and the log are written by one worker at a
\* time, the one holding the lock, and a worker that does not hold the lock
\* uses nothing another worker uses too, so not the downloader's session.
SharedStateOnlyUnderLock ==
    dl_pc = "running" =>
        /\ \A i, j \in Tasks : InLockedBlock(i) /\ InLockedBlock(j) => i = j
        /\ \A i \in Tasks : InLockedBlock(i) => lock = i
        /\ \A i \in Tasks : UsesSession(i) => lock = i

\* C18: while the workers run the slot array has one slot for each URL; a
\* slot is written once, when empty, by the worker of its index holding the
\* lock; the compaction, after which download_images returns and the PDF is
\* assembled, happens when every worker has finished, and no slot is written
\* after it.
SlotsWrittenOnceBeforeCompaction ==
    /\ [](dl_pc = "running" => Len(downloaded_files) = Len(image_urls))
    /\ [][dl_pc = "running" /\ dl_pc' = "running" =>
            \A i \in Tasks :
                downloaded_files'[i] # downloaded_files[i] =>
                    /\ downloaded_files[i] = NoFile
                    /\ task[i] = "in_ok" /\ lock = i
                    /\ \A j \in Tasks \ {i} : downloaded_files'[j] = downloaded_files[j]]_vars
    /\ [][dl_pc = "running" /\ dl_pc' = "returned" =>
            \A i \in Tasks : task[i] \in {"true", "false"}]_vars
    /\ [][dl_pc = "returned" => UNCHANGED <<downloaded_files, task>>]_vars
\* every worker has finished, one of them without a file, and the array of
\* three or more slots was compacted
CompactedAfterLastWorker ==
    /\ dl_pc = "returned" /\ Len(image_urls) >= 3
    /\ Len(downloaded_files) = Len(image_urls) - 1
    /\ task[Len(image_urls)] = "false"

\* ------------------------------------------------------------ the requests of a job
\* extract_images is over and has left nothing behind: the states of DlInit
ExtractionOver == pc = "done" /\ site = "static" /\ doc.imgs = <<>>
\* The network calls of a job after the initial fetch: the page requests of
\* extract_images, from the states of Init, and the image requests of
\* download_images, from the states of DlInit.
RequestInit == Init \/ DlInit
RequestNext == Next \/ (ExtractionOver /\ DlCall) \/ DlWork
RequestSpec == RequestInit /\ [][RequestNext]_vars

\* C16: no request is made again: a crawl requests no page URL twice and
\* requests nothing after a failed request; download_images requests an
\* item at most once while it runs, the items whose request failed too, and
\* has requested every item exactly once when it returns.
NoRequestRepeated ==
    /\ [](NoDuplicates(requests) /\ self_url \notin Range(requests))
    /\ [][crawl_error = "fetch" => requests' = requests]_vars
    /\ [](dl_pc = "running" => \A i \in Tasks : get_calls[i] <= 1)
    /\ [](dl_pc = "returned" => \A i \in Tasks : get_calls[i] = 1)
    /\ [][dl_pc = "running" =>
            \A i \in Tasks : get_calls[i] = 1 => get_calls'[i] = 1]_vars
\* the request of the second item failed, the others were downloaded, and
\* download_images has returned
FailedItemRequestedOnce ==
    /\ dl_pc = "returned" /\ Len(image_urls) = 3
    /\ task = <<"true", "false", "true">>
    /\ get_calls[2] = 1 /\ Len(downloaded_files) = 2

\* ------------------------------------------------------------ detect_related_chapters
\* None, the story id of a URL without the marker
NoStory == <<"None">>
\* url.split('/porncomic/')[1].split('/')[0]
extract_story_id(url) ==
    LET S == {i \in 1..(Len(url) - 2) :
                url[i] = "/" /\ url[i+1] = "porncomic" /\ url[i+2] = "/"}
    IN IF S = {} THEN NoStory
       ELSE LET n == IndexOf(url, "/", Min(S) + 3)
            IN SubSeq(url, Min(S) + 3, IF n = 0 THEN Len(url) ELSE n - 1)
is_same_story(self, url) == extract_story_id(self) = extract_story_id(url)
\* An <option> is [redirect, name]: its data-redirect attribute (<<>> when
\* absent) and its stripped text.  A page without the selector is a page
\* without options.
detect_related_chapters(self, options) ==
    LET sel == SelectSeq(options, LAMBDA o : /\ o.redirect # <<>> /\ o.name # ""
                                             /\ is_same_story(self, o.redirect))
    IN [i \in 1..Len(sel) |-> [url |-> sel[i].redirect, name |-> sel[i].name]]

\* ------------------------------------------------------------ run, download_chapter, create_pdf
U_a1 == <<"/", "porncomic", "/", "a", "/", "c", "1">>
U_a2 == <<"/", "porncomic", "/", "a", "/", "c", "2">>
U_b1 == <<"/", "porncomic", "/", "b", "/", "c", "1">>
MainUrls == {U_a1, U_noext}
Options == [redirect : {<<>>, U_a2, U_b1, U_noext}, name : {"", "two"}]
JobUrls == {U_plain}

\* tempfile.mkdtemp() of the constructor, for the downloader of job j
mkdtemp(dirs, j) == dirs \cup {j}
\* shutil.rmtree(self.temp_dir), for the downloader of job j; the file
\* system is taken to work, so the except branch of cleanup is not taken
cleanup(dirs, j) == dirs \ {j}
\* the early returns of download_chapter and create_pdf
NoneExtractedIgnored(urls) == FALSE
NoneExtracted(urls) == urls = <<>>
NoneDownloaded(files) == files = <<>>
NoneLoaded(imgs) == imgs = <<>>
\* what download_images returns when exactly the items in ok are downloaded
DownloadResult(urls, ok) ==
    Compact([i \in 1..Len(urls) |-> IF i \in ok THEN TempFile(i, urls[i]) ELSE NoFile])
\* pil_images of create_pdf when exactly the files in loadable can be opened
LoadImages(files, loadable) == SelectSeq(files, LAMBDA f : f.idx \in loadable)

\* extract_images has nothing to do
ExIdle ==
    /\ pc = "done" /\ site = "static"
    /\ doc = [indicator |-> FALSE, control_div |-> FALSE, imgs |-> <<>>]
    /\ image_urls = <<>>
    /\ current_url = 0 /\ visited_urls = {} /\ all_image_urls = <<>>
    /\ page_number = 0 /\ next_url = 0 /\ crawl_error = "none"
    /\ processed = <<>> /\ page_images = <<>> /\ requests = <<>>
JobInit ==
    /\ ExIdle /\ DlIdle
    /\ jpc = "new" /\ main_url \in MainUrls /\ job = 0 /\ temp_dirs = {}
    /\ related_chapters = <<>> /\ prompts = 0
    /\ chapter_urls = <<>> /\ chapter_files = <<>> /\ pil_images = <<>>
    /\ downloads = {} /\ pdfs = {} /\ pdf_pages = <<>> /\ results = {} /\ ended = {}
    /\ unreadable = {} /\ BulkIdle /\ FnIdle

\* download_chapter returns (how = "empty" or "success"): the main job goes
\* on in run(), a related job is over and the for loop goes on
ChapterReturns(how) ==
    /\ results' = results \cup {[job |-> job, how |-> how]}
    /\ IF job = 0
       THEN /\ jpc' = IF related_chapters # <<>> THEN "ask" ELSE "cleanup"
            /\ ended' = ended
       ELSE /\ jpc' = "loop"
            /\ ended' = ended \cup {job}

\* ImageToPDFDownloader(url, cookies_file) in download_single_mode or
\* download_bulk_mode
Construct ==
    /\ jpc = "new"
    /\ temp_dirs' = mkdtemp(temp_dirs, 0)
    /\ jpc' = "fetch"
    /\ UNCHANGED <<main_url, job, related_chapters, prompts, chapter_urls, chapter_files,
                   pil_images, unreadable, downloads, pdfs, pdf_pages, results, ended, exVars, dlVars, fnVars, bulkVars>>
\* fetch_page fails and calls sys.exit(1): SystemExit is no Exception, so no
\* handler takes it; it passes the finally of the main run(), which cleans
\* up the main downloader, and ends the process
FetchFail ==
    /\ jpc = "fetch"
    /\ results' = results \cup {[job |-> job, how |-> "error"]}
    /\ temp_dirs' = cleanup(temp_dirs, 0)
    /\ ended' = ended \cup {job, 0}
    /\ jpc' = "exited"
    /\ UNCHANGED <<main_url, job, related_chapters, prompts, chapter_urls, chapter_files,
                   pil_images, unreadable, downloads, pdfs, pdf_pages, exVars, dlVars, fnVars, bulkVars>>
\* run(): the page is fetched and its related chapters are detected
FetchMainOk ==
    /\ jpc = "fetch" /\ job = 0
    /\ \E options \in SeqsUpTo(Options, MaxRelated) :
          related_chapters' = detect_related_chapters(main_url, options)
    /\ jpc' = "extract"
    /\ UNCHANGED <<main_url, job, temp_dirs, prompts, chapter_urls, chapter_files,
                   pil_images, unreadable, downloads, pdfs, pdf_pages, results, ended, exVars, dlVars, fnVars, bulkVars>>
\* related_downloader.fetch_page() succeeds
FetchRelatedOk ==
    /\ jpc = "fetch" /\ job # 0
    /\ jpc' = "extract"
    /\ UNCHANGED <<main_url, job, temp_dirs, related_chapters, prompts, chapter_urls,
                   chapter_files, pil_images, unreadable, downloads, pdfs, pdf_pages, results, ended,
                   exVars, dlVars, fnVars, bulkVars>>
\* download_chapter: extract_images, `if not image_urls: return`
ChapterExtract ==
    /\ jpc = "extract"
    /\ \E urls \in SeqsUpTo(JobUrls, MaxUrls) :
          /\ chapter_urls' = urls
          /\ IF NoneExtracted(urls) THEN ChapterReturns("empty")
             ELSE jpc' = "download" /\ UNCHANGED <<results, ended>>
    /\ UNCHANGED <<main_url, job, temp_dirs, related_chapters, prompts, chapter_files,
                   pil_images, unreadable, downloads, pdfs, pdf_pages, exVars, dlVars, fnVars, bulkVars>>
\* download_chapter: download_images, `if not downloaded_files: return`
ChapterDownload ==
    /\ jpc = "download"
    /\ downloads' = downloads \cup {job}
    /\ \E ok \in SUBSET (1..Len(chapter_urls)) :
          /\ chapter_files' = DownloadResult(chapter_urls, ok)
          /\ IF NoneDownloaded(chapter_files') THEN ChapterReturns("empty")
             ELSE jpc' = "pdf" /\ UNCHANGED <<results, ended>>
    /\ UNCHANGED <<main_url, job, temp_dirs, related_chapters, prompts, chapter_urls,
                   pil_images, unreadable, pdfs, pdf_pages, exVars, dlVars, fnVars, bulkVars>>
\* pil_images[0].save(...) raises: it decodes every image of pil_images
SaveRaises(imgs, bad) == \E f \in Range(imgs) : f.idx \in bad
\* download_chapter: create_pdf.  Image.open reads the header of a file and,
\* for an image of mode RGB, the loop converts nothing: a file whose header
\* is intact and whose pixel data is cut short is appended to pil_images like
\* a good one (truncated), one that cannot be opened or converted is skipped.
\* The save decodes the images; when it raises, the outer except prints the
\* error and no PDF is written.
ChapterPdf ==
    /\ jpc = "pdf"
    /\ \E loadable \in SUBSET {f.idx : f \in Range(chapter_files)} :
       \E truncated \in SUBSET loadable :
          /\ pil_images' = LoadImages(chapter_files, loadable)
          /\ unreadable' = truncated
          /\ IF NoneDownloaded(chapter_files) \/ NoneLoaded(pil_images')
             THEN /\ UNCHANGED <<pdfs, pdf_pages>>
                  /\ ChapterReturns("empty")
             ELSE IF SaveRaises(pil_images', truncated)
             THEN /\ UNCHANGED <<pdfs, pdf_pages>>
                  /\ ChapterReturns("unsaved")
             ELSE /\ pdfs' = pdfs \cup {job}
                  /\ pdf_pages' = pil_images'
                  /\ ChapterReturns("success")
    /\ UNCHANGED <<main_url, job, temp_dirs, related_chapters, prompts, chapter_urls,
                   chapter_files, downloads, exVars, dlVars, fnVars, bulkVars>>
\* the answer to "Download them all?" is yes
AskYes ==
    /\ jpc = "ask"
    /\ jpc' = "loop"
    /\ UNCHANGED <<main_url, job, temp_dirs, related_chapters, prompts, chapter_urls,
                   chapter_files, pil_images, unreadable, downloads, pdfs, pdf_pages, results, ended,
                   exVars, dlVars, fnVars, bulkVars>>
\* the answer is no
AskNo ==
    /\ jpc = "ask"
    /\ jpc' = "cleanup"
    /\ UNCHANGED <<main_url, job, temp_dirs, related_chapters, prompts, chapter_urls,
                   chapter_files, pil_images, unreadable, downloads, pdfs, pdf_pages, results, ended,
                   exVars, dlVars, fnVars, bulkVars>>
\* the answer is neither: the question is asked again
AskAgain ==
    /\ jpc = "ask"
    /\ prompts < MaxPrompts
    /\ prompts' = prompts + 1
    /\ UNCHANGED <<jpc, main_url, job, temp_dirs, related_chapters, chapter_urls,
                   chapter_files, pil_images, unreadable, downloads, pdfs, pdf_pages, results, ended,
                   exVars, dlVars, fnVars, bulkVars>>
\* input() raises (EOFError: standard input is closed): the exception
\* leaves run() through the finally, which cleans up the main downloader
AskError ==
    /\ jpc = "ask"
    /\ temp_dirs' = cleanup(temp_dirs, 0)
    /\ ended' = ended \cup {0}
    /\ jpc' = "raised"
    /\ UNCHANGED <<main_url, job, related_chapters, prompts, chapter_urls, chapter_files,
                   pil_images, unreadable, downloads, pdfs, pdf_pages, results,
                   exVars, dlVars, fnVars, bulkVars>>
\* the for loop takes the next related chapter and constructs its downloader
LoopNext ==
    /\ jpc = "loop"
    /\ job < Len(related_chapters)
    /\ job' = job + 1
    /\ temp_dirs' = mkdtemp(temp_dirs, job + 1)
    /\ chapter_urls' = <<>> /\ chapter_files' = <<>> /\ pil_images' = <<>>
    /\ unreadable' = {}
    /\ jpc' = "fetch"
    /\ UNCHANGED <<main_url, related_chapters, prompts, downloads, pdfs, pdf_pages,
                   results, ended, exVars, dlVars, fnVars, bulkVars>>
\* the for loop is exhausted
LoopEnd ==
    /\ jpc = "loop"
    /\ job = Len(related_chapters)
    /\ jpc' = "cleanup"
    /\ UNCHANGED <<main_url, job, temp_dirs, related_chapters, prompts, chapter_urls,
                   chapter_files, pil_images, unreadable, downloads, pdfs, pdf_pages, results, ended,
                   exVars, dlVars, fnVars, bulkVars>>
\* finally: self.cleanup(), and run() returns
Cleanup ==
    /\ jpc = "cleanup"
    /\ temp_dirs' = cleanup(temp_dirs, 0)
    /\ ended' = ended \cup {0}
    /\ jpc' = "done"
    /\ UNCHANGED <<main_url, job, related_chapters, prompts, chapter_urls, chapter_files,
                   pil_images, unreadable, downloads, pdfs, pdf_pages, results, exVars, dlVars, fnVars, bulkVars>>

JobNext ==
    \/ Construct \/ FetchFail \/ FetchMainOk \/ FetchRelatedOk
    \/ ChapterExtract \/ ChapterDownload \/ ChapterPdf
    \/ AskYes \/ AskNo \/ AskAgain \/ AskError \/ LoopNext \/ LoopEnd \/ Cleanup
JobSpec == JobInit /\ [][JobNext]_vars

\* ------------------------------------------------------------ download_bulk_mode
\* URLs in the bulk file
MaxBulk == 2
\* the strategy is chosen and the for loop is about to start
BulkInit ==
    /\ ExIdle /\ DlIdle /\ FnIdle
    /\ jpc = "bulk" /\ main_url = <<>> /\ job = 0 /\ temp_dirs = {}
    /\ related_chapters = <<>> /\ prompts = 0
    /\ chapter_urls = <<>> /\ chapter_files = <<>> /\ pil_images = <<>>
    /\ downloads = {} /\ pdfs = {} /\ pdf_pages = <<>> /\ results = {} /\ ended = {}
    /\ unreadable = {}
    /\ bulk_len \in 1..MaxBulk /\ bulk_idx = 0 /\ auto_download \in BOOLEAN
    /\ successful = 0 /\ failed = 0
\* the loop takes the next URL and, asked or not, goes on to download it:
\* the job variables describe the run for this URL and start afresh
BulkTake ==
    /\ jpc = "bulk" /\ bulk_idx < bulk_len
    /\ bulk_idx' = bulk_idx + 1
    /\ main_url' \in MainUrls
    /\ jpc' = "new" /\ job' = 0 /\ temp_dirs' = {}
    /\ related_chapters' = <<>> /\ prompts' = 0
    /\ chapter_urls' = <<>> /\ chapter_files' = <<>> /\ pil_images' = <<>>
    /\ downloads' = {} /\ pdfs' = {} /\ pdf_pages' = <<>> /\ results' = {} /\ ended' = {}
    /\ unreadable' = {}
    /\ UNCHANGED <<bulk_len, auto_download, successful, failed, exVars, dlVars, fnVars>>
\* the answer to "Download this one?" is skip: continue
BulkSkip ==
    /\ jpc = "bulk" /\ bulk_idx < bulk_len /\ ~auto_download
    /\ bulk_idx' = bulk_idx + 1
    /\ UNCHANGED <<jpc, main_url, job, temp_dirs, related_chapters, prompts, chapter_urls,
                   chapter_files, pil_images, unreadable, downloads, pdfs, pdf_pages,
                   results, ended, bulk_len, auto_download, successful, failed,
                   exVars, dlVars, fnVars>>
\* the answer is quit: break
BulkQuit ==
    /\ jpc = "bulk" /\ bulk_idx < bulk_len /\ ~auto_download
    /\ bulk_idx' = bulk_idx + 1
    /\ jpc' = "bulk_done"
    /\ UNCHANGED <<main_url, job, temp_dirs, related_chapters, prompts, chapter_urls,
                   chapter_files, pil_images, unreadable, downloads, pdfs, pdf_pages,
                   results, ended, bulk_len, auto_download, successful, failed,
                   exVars, dlVars, fnVars>>
\* downloader.run() has returned
BulkRunReturned ==
    /\ jpc = "done" /\ bulk_idx > 0
    /\ successful' = successful + 1
    /\ jpc' = "bulk"
    /\ UNCHANGED <<main_url, job, temp_dirs, related_chapters, prompts, chapter_urls,
                   chapter_files, pil_images, unreadable, downloads, pdfs, pdf_pages,
                   results, ended, bulk_len, bulk_idx, auto_download, failed,
                   exVars, dlVars, fnVars>>
\* downloader.run() has raised an Exception: except
BulkRunRaised ==
    /\ jpc = "raised" /\ bulk_idx > 0
    /\ failed' = failed + 1
    /\ jpc' = "bulk"
    /\ UNCHANGED <<main_url, job, temp_dirs, related_chapters, prompts, chapter_urls,
                   chapter_files, pil_images, unreadable, downloads, pdfs, pdf_pages,
                   results, ended, bulk_len, bulk_idx, auto_download, successful,
                   exVars, dlVars, fnVars>>
\* the for loop is exhausted: the counters are printed
BulkEnd ==
    /\ jpc = "bulk" /\ bulk_idx = bulk_len
    /\ jpc' = "bulk_done"
    /\ UNCHANGED <<main_url, job, temp_dirs, related_chapters, prompts, chapter_urls,
                   chapter_files, pil_images, unreadable, downloads, pdfs, pdf_pages,
                   results, ended, bulkVars, exVars, dlVars, fnVars>>
BulkNext ==
    \/ BulkTake \/ BulkSkip \/ BulkQuit \/ BulkRunReturned \/ BulkRunRaised \/ BulkEnd
    \/ JobNext
BulkSpec == BulkInit /\ [][BulkNext]_vars

\* C17: a failed fetch of a job's initial page ends that job and nothing
\* else: the program does not end while URLs of the bulk file or related
\* chapters are left, and when the bulk loop is over or the program has
\* ended the failed fetch of a URL's page has been counted in failed.
FetchFailureEndsOnlyItsJob ==
    /\ jpc = "exited" => bulk_idx = bulk_len /\ job = Len(related_chapters)
    /\ jpc \in {"exited", "bulk_done"} /\ [job |-> 0, how |-> "error"] \in results
          => failed >= 1

\* ------------------------------------------------------------ claims on the job
\* C2: once a chapter job is over, be it the main job of run() or a related
\* chapter's job, the temporary directory of its downloader is gone.
WorkspaceRemovedAtJobEnd == \A j \in ended : j \notin temp_dirs

\* the latest download_chapter has returned
ChapterOver == \E r \in results : r.job = job /\ r.how # "error"
\* C9: a job that extracts no image starts no download and writes no PDF, a
\* job that downloads no image or can load none writes no PDF, and in each
\* case download_chapter returns: the job is recorded as empty, not as
\* failed.
EmptyResultWritesNoPdf ==
    /\ jpc = "download" => chapter_urls # <<>>
    /\ jpc = "pdf" => chapter_files # <<>>
    /\ \A r \in results : r.how = "empty" => r.job \notin pdfs
    /\ ChapterOver =>
          /\ chapter_urls = <<>> => job \notin downloads
          /\ (chapter_urls = <<>> \/ chapter_files = <<>> \/ pil_images = <<>>)
                => /\ job \notin pdfs
                   /\ [job |-> job, how |-> "empty"] \in results
                   /\ jpc # "exited"
\* a related job downloaded images of which none could be loaded
NothingLoadable ==
    /\ ChapterOver /\ job = 1 /\ Len(chapter_files) >= 2 /\ pil_images = <<>>
    /\ 0 \in pdfs

\* the files of the list that can be loaded: opened, converted and decoded
LoadableFiles == SelectSeq(pil_images, LAMBDA f : f.idx \notin unreadable)
\* C13: when create_pdf has returned for a list with at least one file that
\* can be loaded, a PDF was written whose pages are the loadable files of
\* the list, in list order; the files that cannot be loaded are left out
\* and do not keep the PDF from being written.
PdfHoldsLoadableFiles ==
    ChapterOver /\ chapter_files # <<>> /\ LoadableFiles # <<>>
        => job \in pdfs /\ pdf_pages = LoadableFiles

\* ------------------------------------------------------------ smart_sort_images, called alone
\* length of the list handed to smart_sort_images
MaxSort == 3
S_10 == <<"/", "1", "0", ".jpg">>
S_img2 == <<"/", "img", "_", "2", ".png">>
S_9_1 == <<"/", "9", "_", "1", ".jpg">>
\* keys 2, 2, 1, 10, 9 and, without a digit, none
SortUrls == {U_plain, S_img2, U_upper, S_10, S_9_1, U_text, U_logo}
\* only the pure method runs
FnOnly == ExIdle /\ DlIdle /\ JobIdle
SortInit ==
    /\ FnOnly
    /\ fn_pc = "call" /\ fn_arg \in SeqsUpTo(SortUrls, MaxSort) /\ fn_res = <<>>
\* smart_sort_images(image_urls) returns
SortCall ==
    /\ fn_pc = "call"
    /\ fn_res' = <<smart_sort_images(fn_arg)>>
    /\ fn_pc' = "returned"
    /\ UNCHANGED <<fn_arg, exVars, dlVars, jobVars>>
SortSpec == SortInit /\ [][SortCall]_vars

\* how often u occurs in s
Count(s, u) == Cardinality({i \in 1..Len(s) : s[i] = u})
\* the entries of s that are a or b, in the order of s
Restrict(s, a, b) == SelectSeq(s, LAMBDA x : x = a \/ x = b)
\* C11: the list smart_sort_images returns is a permutation of its input, in
\* ascending order of the numeric key; two URLs with the same key are in the
\* order they had in the input, and a URL without a digit in its filename
\* comes after every URL with a numeric key.
SortedByKeyStable ==
    fn_pc = "returned" =>
        LET out == fn_res[1]
            key(u) == extract_number_from_filename(u)
        IN /\ Len(out) = Len(fn_arg)
           /\ \A u \in Range(fn_arg) \cup Range(out) : Count(out, u) = Count(fn_arg, u)
           /\ \A p, q \in 1..Len(out) :
                 p < q => /\ key(out[p]) = Inf => key(out[q]) = Inf
                          /\ key(out[p]) # Inf /\ key(out[q]) # Inf
                                => key(out[p]) <= key(out[q])
           /\ \A a, b \in Range(fn_arg) :
                 key(a) = key(b) => Restrict(out, a, b) = Restrict(fn_arg, a, b)
\* a URL without a digit came first and went last, behind a URL with key 10
\* and two different URLs with key 2 that kept their order in front of it
SortMovedAndKept ==
    /\ fn_pc = "returned" /\ Len(fn_arg) = 3
    /\ extract_number_from_filename(fn_arg[1]) = Inf
    /\ \E u \in {S_10, S_img2} :
          /\ fn_arg = <<U_text, u, U_plain>>
          /\ fn_res[1] = IF u = S_10 THEN <<U_plain, S_10, U_text>>
                         ELSE <<S_img2, U_plain, U_text>>

\* ------------------------------------------------------------ clean_image_url, called alone
\* path segments in front of the filename
MaxSegs == 4
PathPieces == {<<"/", "styles", "/", "v">>, <<"/", "public">>, <<"/", "img">>}
RECURSIVE Flatten(_)
Flatten(ss) == IF ss = <<>> THEN <<>> ELSE Head(ss) \o Flatten(Tail(ss))
Paths == {Flatten(p) \o <<"/", "2", ".jpg">> : p \in SeqsUpTo(PathPieces, MaxSegs)}
Queries ==
    {<<>>, <<"?", "w=", "1">>, <<"?", "itok=", "a">>,
     <<"?", "w=", "1", "&", "itok=", "a">>, <<"?", "itok=", "a", "&", "w=", "1">>,
     <<"?", "itok=", "&", "w=", "1">>}
CleanUrls == {p \o q : p \in Paths, q \in Queries}
CleanInit ==
    /\ FnOnly
    /\ fn_pc = "call" /\ fn_arg \in CleanUrls /\ fn_res = <<>>
\* clean_image_url(url) returns
CleanCall ==
    /\ fn_pc = "call"
    /\ fn_res' = <<clean_image_url(fn_arg)>>
    /\ fn_pc' = "returned"
    /\ UNCHANGED <<fn_arg, exVars, dlVars, jobVars>>
\* clean_image_url is called with the URL it returned
CleanAgain ==
    /\ fn_pc = "returned" /\ Len(fn_res) = 1
    /\ fn_res' = Append(fn_res, clean_image_url(fn_res[1]))
    /\ UNCHANGED <<fn_pc, fn_arg, exVars, dlVars, jobVars>>
CleanSpec == CleanInit /\ [][CleanCall \/ CleanAgain]_vars

\* C12: cleaning a cleaned URL changes nothing, whatever /styles/../public/
\* segments and query string the URL has.
CleanIdempotent == Len(fn_res) = 2 => fn_res[2] = fn_res[1]

\* ------------------------------------------------------------ detect_related_chapters, called alone
RelatedInit ==
    /\ FnOnly
    /\ fn_pc = "call" /\ fn_res = <<>>
    /\ fn_arg \in [self : MainUrls, options : SeqsUpTo(Options, MaxRelated)]
\* detect_related_chapters(html_content) returns
RelatedCall ==
    /\ fn_pc = "call"
    /\ fn_res' = <<detect_related_chapters(fn_arg.self, fn_arg.options)>>
    /\ fn_pc' = "returned"
    /\ UNCHANGED <<fn_arg, exVars, dlVars, jobVars>>
RelatedSpec == RelatedInit /\ [][RelatedCall]_vars

\* C14: the chapters returned are, in option order, exactly the options with
\* a redirect URL and a name whose URL has a story id that is the story id
\* of the page; an option of another story or of no story is not returned,
\* whether or not the page's own URL has a story id.
RelatedAreSameStoryOptions ==
    fn_pc = "returned" =>
        LET same == SelectSeq(fn_arg.options,
                        LAMBDA o : /\ o.redirect # <<>> /\ o.name # ""
                                   /\ extract_story_id(o.redirect) # NoStory
                                   /\ extract_story_id(o.redirect)
                                        = extract_story_id(fn_arg.self))
        IN fn_res[1] = [i \in 1..Len(same) |-> [url |-> same[i].redirect,
                                                 name |-> same[i].name]]
====
